---- MODULE Spec2Model ----
(***************************************************************************)
(* Model of pydantic/_hypothesis_plugin.py: the module that registers      *)
(* Hypothesis strategies for the pydantic types.                           *)
(*                                                                         *)
(* The import of the module is a straight-line sequence of registrations   *)
(* (with one try/except around the optional email-validator dependency).   *)
(* After the import Hypothesis calls the registered resolvers with a       *)
(* class, gets a strategy back and draws values from it.  A strategy is    *)
(* modelled by the set of values it can produce inside a bounded universe. *)
(***************************************************************************)
EXTENDS Integers, Sequences, FiniteSets, TLC

VARIABLES
    pc,               \* position in the module body while it is imported
    email_validator,  \* TRUE iff the optional dependency can be imported
    registry,         \* types passed to st.register_type_strategy so far
    import_failed,    \* TRUE iff the import of the module raised
    fn,               \* the function Hypothesis called last, or "idle"
    cls,              \* its argument: the attributes of a class, or the
                      \* card_number of fix_luhn_digit
    raised,           \* "" or the exception that call raised
    strategy,         \* the values the returned strategy can produce
    drawn,            \* TRUE iff a value has been drawn from the strategy
    value             \* the value drawn / returned

vars == <<pc, email_validator, registry, import_failed,
          fn, cls, raised, strategy, drawn, value>>

(***************************************************************************)
(* Python's None and optional attributes: None is the empty tuple, a set   *)
(* attribute v is the one-tuple <<v>>.                                     *)
(***************************************************************************)
None == <<>>

Some(v) == <<v>>

Val(o) == o[1]

(***************************************************************************)
(* Bounds of the model.                                                    *)
(***************************************************************************)
MaxBound == 2

MaxMultiple == 3

\* the largest min_length / max_length of a constrained str or bytes class;
\* strings are observed up to one character more
MaxLength == 3

\* digits before the placeholder in the arguments of fix_luhn_digit
MaxLuhnPrefix == 3

BoundVals == (0 - MaxBound)..MaxBound

OptBound == {None} \cup {Some(v) : v \in BoundVals}

OptMultiple == {None} \cup {Some(m) : m \in 1..MaxMultiple}

\* the numbers a numeric strategy is observed on
NumUniverse == (0 - MaxBound - 2)..(MaxBound + 2)

(***************************************************************************)
(* Module import, lines 40-356.                                            *)
(***************************************************************************)
EmailTypes == {"EmailStr", "NameEmail"}

\* the unconditional register_type_strategy calls, in source order
Registrations ==
    << "PyObject", "Color", "Json", "JsonWrapper", "PaymentCardNumber",
       "AnyUrl", "AnyHttpUrl", "HttpUrl", "PostgresDsn", "RedisDsn",
       "UUID1", "UUID3", "UUID4", "UUID5",
       "SecretBytes", "SecretStr",
       "IPvAnyAddress", "IPvAnyInterface", "IPvAnyNetwork",
       "StrictBool", "ConstrainedBytes", "ConstrainedDecimal",
       "ConstrainedFloat", "ConstrainedInt", "ConstrainedList",
       "ConstrainedSet", "ConstrainedStr" >>

Done == Len(Registrations) + 1

\* what the try statement does when import_email_validator raises ImportError
OnImportErrorReraise == "raise"

OnImportError == "pass"

\* try: import_email_validator() / except ImportError: pass / else: register
ImportEmails ==
    /\ pc = 0
    /\ ~import_failed
    /\ \/ /\ email_validator
          /\ registry' = registry \cup EmailTypes
          /\ pc' = 1
          /\ UNCHANGED import_failed
       \/ /\ ~email_validator
          /\ IF OnImportError = "pass"
                THEN pc' = 1 /\ UNCHANGED import_failed
                ELSE import_failed' = TRUE /\ UNCHANGED pc
          /\ UNCHANGED registry
    /\ UNCHANGED <<email_validator, fn, cls, raised, strategy, drawn, value>>

\* one st.register_type_strategy(...) statement or decorator
Register ==
    /\ pc \in 1..Len(Registrations)
    /\ ~import_failed
    /\ registry' = registry \cup {Registrations[pc]}
    /\ pc' = pc + 1
    /\ UNCHANGED <<email_validator, import_failed,
                   fn, cls, raised, strategy, drawn, value>>

\* the value of cls while no call is under way
NoCall == [idle |-> TRUE]

Imported == pc = Done /\ ~import_failed

\* Hypothesis can call what was registered for a type once the module is
\* imported; the model follows one call at a time
CanCall(registered) == Imported /\ fn = "idle" /\ registered \in registry

(***************************************************************************)
(* Card numbers, lines 123-148.  A card number is a sequence of            *)
(* characters: the digit characters '0'..'9' are the numbers 0..9 and the  *)
(* placeholder 'X' is the number 10.                                       *)
(***************************************************************************)
X == 10

Digit == 0..9

\* pydantic.PaymentCardNumber.validate_luhn_check_digit: TRUE iff it does
\* not raise
validate_luhn_check_digit(card_number) ==
    LET length == Len(card_number)
        parity == length % 2
        Doubled(digit) == IF 2 * digit > 9 THEN 2 * digit - 9 ELSE 2 * digit
        Term(i) == IF (i - 1) % 2 = parity
                   THEN Doubled(card_number[i]) ELSE card_number[i]
        Sum[i \in 0..(length - 1)] ==
            IF i = 0 THEN card_number[length] ELSE Sum[i - 1] + Term(i)
    IN  /\ \A i \in 1..length : card_number[i] \in Digit
        /\ Sum[length - 1] % 10 = 0

\* for digit in '0123456789'
LuhnDigitsWithoutNine == <<0, 1, 2, 3, 4, 5, 6, 7, 8>>

LuhnDigits == <<0, 1, 2, 3, 4, 5, 6, 7, 8, 9>>

\* card_number[:-1] + digit
ReplaceLast(card_number, digit) ==
    SubSeq(card_number, 1, Len(card_number) - 1) \o <<digit>>

RECURSIVE TryDigits(_, _)
\* the loop of fix_luhn_digit from the k-th digit on
TryDigits(card_number, k) ==
    IF k > Len(LuhnDigits)
    THEN [raised |-> "Should be unreachable", value |-> card_number]
    ELSE LET candidate == ReplaceLast(card_number, LuhnDigits[k])
         IN  IF validate_luhn_check_digit(candidate)
             THEN [raised |-> "", value |-> candidate]
             ELSE TryDigits(candidate, k + 1)

FixLuhnDigit(card_number) ==
    IF card_number[Len(card_number)] # X
    THEN [raised |-> "expected placeholder check digit", value |-> card_number]
    ELSE TryDigits(card_number, 1)

\* the strings of at most n digits
RECURSIVE DigitStrings(_)
DigitStrings(n) ==
    IF n = 0 THEN {<<>>}
    ELSE LET shorter == DigitStrings(n - 1)
         IN  shorter \cup {Append(t, d) : t \in {u \in shorter : Len(u) = n - 1},
                                          d \in Digit}

\* the arguments fix_luhn_digit is called with: digits, then a digit or 'X'
LuhnArguments ==
    {Append(t, last) : t \in DigitStrings(MaxLuhnPrefix), last \in Digit \cup {X}}

fix_luhn_digit ==
    /\ Imported
    /\ fn = "idle"
    /\ \E card_number \in LuhnArguments :
          LET r == FixLuhnDigit(card_number)
          IN  /\ fn' = "fix_luhn_digit"
              /\ cls' = [card_number |-> card_number]
              /\ raised' = r.raised
              /\ value' = r.value
              /\ drawn' = (r.raised = "")
              /\ strategy' = {}
    /\ UNCHANGED <<pc, email_validator, registry, import_failed>>

\* card_patterns: each pattern is its leading characters, the number of
\* [0-9] that follow (lo..hi), and the final X
card_patterns ==
    << [lead |-> {<<4>>}, lo |-> 14, hi |-> 14],
       [lead |-> {<<5, d>> : d \in {1, 2, 3, 4, 5}}, lo |-> 13, hi |-> 13],
       [lead |-> {<<3, d>> : d \in {4, 7}}, lo |-> 12, hi |-> 12],
       [lead |-> {<<>>}, lo |-> 11, hi |-> 18] >>

\* some of the strings [0-9]{n}: two free digits, then one digit repeated
DigitRuns(n) ==
    {[i \in 1..n |-> IF i = 1 THEN a ELSE IF i = 2 THEN b ELSE f] :
        a \in Digit, b \in Digit, f \in {0, 5, 9}}

\* st.from_regex('|'.join(card_patterns), fullmatch=True)
CardRegexExamples ==
    UNION {{lead \o run \o <<X>> :
               lead \in card_patterns[p].lead,
               run \in UNION {DigitRuns(n) :
                                 n \in card_patterns[p].lo..card_patterns[p].hi}} :
           p \in 1..Len(card_patterns)}

\* drawing from from_regex(...).map(fix_luhn_digit)
PaymentCardNumber ==
    /\ CanCall("PaymentCardNumber")
    /\ \E s \in CardRegexExamples :
          LET r == FixLuhnDigit(s)
          IN  /\ fn' = "PaymentCardNumber"
              /\ cls' = [card_number |-> s]
              /\ raised' = r.raised
              /\ value' = r.value
              /\ drawn' = (r.raised = "")
              /\ strategy' = {}
    /\ UNCHANGED <<pc, email_validator, registry, import_failed>>

(***************************************************************************)
(* URLs, lines 150-196.  The classes are the five registered ones with the *)
(* attributes pydantic.networks gives them, and one subclass of AnyUrl     *)
(* whose min_length and max_length lie among the lengths of the URLs of    *)
(* the model.                                                              *)
(***************************************************************************)
UrlClass(name, allowed_schemes, tld_required, user_required, min_length, max_length) ==
    [name |-> name, allowed_schemes |-> allowed_schemes,
     tld_required |-> tld_required, user_required |-> user_required,
     min_length |-> min_length, max_length |-> max_length]

UrlClasses ==
    { UrlClass("AnyUrl", {}, FALSE, FALSE, 1, 65536),
      UrlClass("AnyHttpUrl", {"http", "https"}, FALSE, FALSE, 1, 65536),
      UrlClass("HttpUrl", {"http", "https"}, TRUE, FALSE, 1, 2083),
      UrlClass("PostgresDsn", {"postgres", "postgresql"}, FALSE, TRUE, 1, 65536),
      UrlClass("RedisDsn", {"redis"}, FALSE, TRUE, 1, 65536),
      UrlClass("AnyUrl", {}, TRUE, FALSE, 12, 16) }

\* the type resolve_anyurl was registered for and the class derives from
RegisteredFor(c) == c.name

\* examples of ascii_domain_regex() and int_domain_regex(): the text of a
\* full match and its group 'tld'
domains ==
    { [text |-> "a.com", tld |-> ".com", ip |-> FALSE],
      [text |-> "localhost", tld |-> "", ip |-> FALSE],
      [text |-> "b.a.org.", tld |-> ".org", ip |-> FALSE] }

\* examples of the ipv4 / ipv6 regex of line 168
IpLiterals ==
    { [text |-> "1.2.3.4", tld |-> "", ip |-> TRUE],
      [text |-> "[A:0]", tld |-> "", ip |-> TRUE] }

has_tld(h) == h.tld # ""

hosts(c) ==
    IF c.tld_required
    THEN {h \in domains : has_tld(h)}
    ELSE domains \cup IpLiterals

\* examples of [a-z][a-z0-9+\-.]+
SchemeExamples == {"x+y"}

SchemeStrategy(c) ==
    IF c.allowed_schemes # {} THEN c.allowed_schemes ELSE SchemeExamples

UserStrategyOptional(c) == {None, Some("u")}

\* st.one_of(st.nothing() if cls.user_required else st.none(), from_regex)
UserStrategy(c) ==
    (IF c.user_required THEN {} ELSE {None}) \cup {Some("u")}

\* cls.build: the URL made of the parts
build(scheme, user, password, host, port, path, query, fragment) ==
    LET Opt(prefix, part) ==
            IF part # None /\ Val(part) # "" THEN prefix \o Val(part) ELSE ""
        At == IF Opt("", user) # "" \/ Opt("", password) # "" THEN "@" ELSE ""
    IN  scheme \o "://" \o Opt("", user) \o Opt(":", password) \o At
        \o host \o Opt(":", port) \o Opt("", path) \o Opt("?", query)
        \o Opt("#", fragment)

\* .filter(lambda url: cls.min_length <= len(url) <= cls.max_length)
UrlLengthFilter(c, url) == c.min_length <= Len(url) /\ Len(url) <= c.max_length

AnyurlStrategy(c) ==
    LET built ==
            {[scheme |-> scheme, user |-> user, password |-> password,
              host |-> host, port |-> port, path |-> path, query |-> query,
              fragment |-> fragment,
              url |-> build(scheme, user, password, host.text, port, path,
                            query, fragment)] :
                scheme \in SchemeStrategy(c),
                user \in UserStrategy(c),
                password \in {None, Some("pw")},
                host \in hosts(c),
                port \in {None, Some("80")},
                path \in {None, Some("/p")},
                query \in {None, Some("q=1")},
                fragment \in {None, Some("f")}}
    IN  {u \in built : UrlLengthFilter(c, u.url)}

\* the value of `value` before a URL is drawn
NoUrl == [url |-> ""]

resolve_anyurl ==
    /\ \E c \in UrlClasses :
          /\ CanCall(RegisteredFor(c))
          /\ fn' = "resolve_anyurl"
          /\ cls' = c
          /\ strategy' = AnyurlStrategy(c)
    /\ raised' = ""
    /\ drawn' = FALSE
    /\ value' = NoUrl
    /\ UNCHANGED <<pc, email_validator, registry, import_failed>>

(***************************************************************************)
(* Hypothesis primitives used by the numeric resolvers.                    *)
(***************************************************************************)
\* st.integers(min_value, max_value): both ends included, None is unbounded
Integers_(min_value, max_value) ==
    {x \in NumUniverse :
        /\ (min_value # None => Val(min_value) <= x)
        /\ (max_value # None => x <= Val(max_value))}

\* math.ceil(Fraction(a) / Fraction(m)) and math.floor(...), m > 0
CeilDivAsFloor(a, m) == a \div m

CeilDiv(a, m) == 0 - ((0 - a) \div m)

FloorDiv(a, m) == a \div m

\* cls.validate as used in .filter(cls.validate): the comments of the
\* resolvers say the filter handles multiple_of (and the decimal digits)
Validate(c, v) == c.multiple_of # None => v % Val(c.multiple_of) = 0

(***************************************************************************)
(* Constrained numeric classes: ge, gt, le, lt and multiple_of, each None  *)
(* or a number.  Floats and decimals are observed on the same grid of      *)
(* numbers as the integers: what matters to the resolvers is whether an    *)
(* end point of the range is included or excluded.                         *)
(***************************************************************************)
NumericClasses ==
    [ge : OptBound, gt : OptBound, le : OptBound, lt : OptBound,
     multiple_of : OptMultiple]

\* one call of a numeric resolver: the assertion, or the strategy
ResolveNumeric(name, c, assertion, s) ==
    /\ fn' = name
    /\ cls' = c
    /\ raised' = assertion
    /\ strategy' = IF assertion = "" THEN s ELSE {}
    /\ drawn' = FALSE
    /\ value' = 0
    /\ UNCHANGED <<pc, email_validator, registry, import_failed>>

(***************************************************************************)
(* resolve_condecimal, lines 248-259.                                      *)
(***************************************************************************)
\* st.decimals(min_value, max_value, allow_nan=False): both ends included
Decimals(min_value, max_value) ==
    {x \in NumUniverse :
        /\ (min_value # None => Val(min_value) <= x)
        /\ (max_value # None => x <= Val(max_value))}

CondecimalAssertion(c) ==
    IF c.gt # None /\ c.ge # None THEN "Set gt or ge, but not both"
    ELSE IF c.lt # None /\ c.le # None THEN "Set lt or le, but not both"
    ELSE ""

CondecimalStrategy(c) ==
    LET min_value == IF c.gt # None THEN c.gt ELSE c.ge
        max_value == IF c.lt # None THEN c.lt ELSE c.le
    IN  {d \in Decimals(min_value, max_value) : Validate(c, d)}

resolve_condecimal ==
    /\ CanCall("ConstrainedDecimal")
    /\ \E c \in NumericClasses :
           ResolveNumeric("resolve_condecimal", c,
                          CondecimalAssertion(c), CondecimalStrategy(c))

(***************************************************************************)
(* resolve_confloat, lines 262-283.                                        *)
(***************************************************************************)
\* st.floats(min_value, max_value, exclude_min=..., exclude_max=...)
Floats(min_value, max_value, exclude_min, exclude_max) ==
    {x \in NumUniverse :
        /\ (min_value # None => Val(min_value) <= x)
        /\ (max_value # None => x <= Val(max_value))
        /\ (exclude_min => x # Val(min_value))
        /\ (exclude_max => x # Val(max_value))}

ConfloatAssertionNever(c) == ""

ConfloatAssertion(c) ==
    IF c.gt # None /\ c.ge # None THEN "Set gt or ge, but not both"
    ELSE IF c.lt # None /\ c.le # None THEN "Set lt or le, but not both"
    ELSE ""

ConfloatExcludeMaxNever(c) == FALSE

ConfloatExcludeMin(c) == c.gt # None

ConfloatExcludeMax(c) == c.lt # None

ConfloatStrategy(c) ==
    LET min_value == IF c.gt # None THEN c.gt ELSE c.ge
        max_value == IF c.lt # None THEN c.lt ELSE c.le
    IN  {v \in Floats(min_value, max_value,
                      ConfloatExcludeMin(c), ConfloatExcludeMax(c)) :
            Validate(c, v)}

resolve_confloat ==
    /\ CanCall("ConstrainedFloat")
    /\ \E c \in NumericClasses :
           ResolveNumeric("resolve_confloat", c,
                          ConfloatAssertion(c), ConfloatStrategy(c))

(***************************************************************************)
(* resolve_conint, lines 286-306.                                          *)
(***************************************************************************)
ConintAssertion(c) ==
    IF c.gt # None /\ c.ge # None THEN "Set gt or ge, but not both"
    ELSE IF c.lt # None /\ c.le # None THEN "Set lt or le, but not both"
    ELSE ""

ConintMinNoAdjust(c) == IF c.gt # None THEN c.gt ELSE c.ge

ConintMin(c) == IF c.gt # None THEN Some(Val(c.gt) + 1) ELSE c.ge

ConintMax(c) == IF c.lt # None THEN Some(Val(c.lt) - 1) ELSE c.le

\* the number the values of st.integers are multiplied by: 1 when the
\* resolver returns st.integers(min_value, max_value) itself
ConintFactor(c) ==
    IF c.multiple_of = None \/ c.multiple_of = Some(1) THEN 1
    ELSE Val(c.multiple_of)

\* the min_value and max_value handed to st.integers
ConintLow(c) ==
    IF ConintFactor(c) = 1 \/ ConintMin(c) = None THEN ConintMin(c)
    ELSE Some(CeilDiv(Val(ConintMin(c)), ConintFactor(c)))

ConintHigh(c) ==
    IF ConintFactor(c) = 1 \/ ConintMax(c) = None THEN ConintMax(c)
    ELSE Some(FloorDiv(Val(ConintMax(c)), ConintFactor(c)))

\* st.integers(min_value, max_value).map(lambda x: x * cls.multiple_of)
ConintMapped(c) ==
    {v \in {x * ConintFactor(c) : x \in Integers_(ConintLow(c), ConintHigh(c))} :
        v \in NumUniverse}

ConintStrategy(c) ==
    IF c.multiple_of = None \/ c.multiple_of = Some(1)
    THEN Integers_(ConintLow(c), ConintHigh(c))
    ELSE {v \in ConintMapped(c) : Validate(c, v)}

resolve_conint ==
    /\ CanCall("ConstrainedInt")
    /\ \E c \in NumericClasses :
           ResolveNumeric("resolve_conint", c,
                          ConintAssertion(c), ConintStrategy(c))

(***************************************************************************)
(* Strings and bytes.  A string is a sequence of characters over a small   *)
(* alphabet with one word character, one whitespace character and one      *)
(* character that is neither.                                              *)
(***************************************************************************)
Chars == {"a", " ", "-"}

Whitespace == {" "}

\* \W: anything that is not a word character, whitespace included
NonWord == Chars \ {"a"}

\* . : anything but a newline
AnyChar == Chars

RECURSIVE StringsUpTo(_)
StringsUpTo(n) ==
    IF n = 0 THEN {<<>>}
    ELSE LET shorter == StringsUpTo(n - 1)
         IN  shorter \cup {Append(t, ch) : t \in {u \in shorter : Len(u) = n - 1},
                                           ch \in Chars}

\* the strings a text strategy is observed on
Text == StringsUpTo(MaxLength + 1)

OptLength == {None} \cup {Some(k) : k \in 0..MaxLength}

\* cls.min_length or 0
OrZero(o) == IF o = None THEN 0 ELSE Val(o)

\* st.text(min_size=..., max_size=...) and st.binary(min_size=..., max_size=...)
TextOfSize(min_size, max_size) ==
    {t \in Text : min_size <= Len(t) /\ (max_size # None => Len(t) <= Val(max_size))}

\* '{{{},{}}}'.format(min_size - 2 if min_size > 2 else 0,
\*                    max_size - 2 if (max_size or 0) > 2 else '')
Repeats(min_size, max_size) ==
    [lo |-> IF min_size > 2 THEN min_size - 2 ELSE 0,
     hi |-> IF OrZero(max_size) > 2 THEN Some(Val(max_size) - 2) ELSE None]

\* the full matches of \W.{lo,hi}\W
NonWordAnyNonWord(repeats) ==
    {t \in Text :
        /\ Len(t) >= 2
        /\ t[1] \in NonWord
        /\ t[Len(t)] \in NonWord
        /\ \A i \in 2..(Len(t) - 1) : t[i] \in AnyChar
        /\ repeats.lo <= Len(t) - 2
        /\ (repeats.hi # None => Len(t) - 2 <= Val(repeats.hi))}

\* the full matches of the pattern chosen for min_size:
\*   \W.{lo,hi}\W   or   \W(.{lo,hi}\W)?   or   (\W(.{lo,hi}\W)?)?
StripPattern(min_size, repeats) ==
    IF min_size >= 2 THEN NonWordAnyNonWord(repeats)
    ELSE IF min_size = 1
         THEN {<<w>> : w \in NonWord} \cup NonWordAnyNonWord(repeats)
         ELSE {<<>>} \cup {<<w>> : w \in NonWord} \cup NonWordAnyNonWord(repeats)

\* st.from_regex(pattern, fullmatch=True): the full matches
FromRegexFullmatch(matches) == matches \cap Text

\* st.from_regex(pattern): the strings re.search finds a match in
FromRegex(matches) ==
    {t \in Text :
        \E i \in 1..(Len(t) + 1) :
            \E j \in (i - 1)..Len(t) : SubSeq(t, i, j) \in matches}

\* s.strip()
RECURSIVE Strip(_)
Strip(t) ==
    IF t = <<>> THEN t
    ELSE IF t[1] \in Whitespace THEN Strip(Tail(t))
    ELSE IF t[Len(t)] \in Whitespace THEN Strip(SubSeq(t, 1, Len(t) - 1))
    ELSE t

\* min_length <= max_length whenever both are set
LengthsInOrder(c) ==
    (c.min_length # None /\ c.max_length # None) =>
        Val(c.min_length) <= Val(c.max_length)

(***************************************************************************)
(* resolve_conbytes, lines 227-245.                                        *)
(***************************************************************************)
ConbytesClasses ==
    {c \in [min_length : OptLength, max_length : OptLength,
            strip_whitespace : BOOLEAN] : LengthsInOrder(c)}

ConbytesStrategy(c) ==
    LET min_size == OrZero(c.min_length)
        max_size == c.max_length
    IN  IF ~c.strip_whitespace
        THEN TextOfSize(min_size, max_size)
        ELSE FromRegexFullmatch(
                 StripPattern(min_size, Repeats(min_size, max_size)))

resolve_conbytes ==
    /\ CanCall("ConstrainedBytes")
    /\ \E c \in ConbytesClasses :
          /\ fn' = "resolve_conbytes"
          /\ cls' = c
          /\ strategy' = ConbytesStrategy(c)
    /\ raised' = ""
    /\ drawn' = FALSE
    /\ value' = <<>>
    /\ UNCHANGED <<pc, email_validator, registry, import_failed>>

(***************************************************************************)
(* resolve_constr, lines 327-356.                                          *)
(***************************************************************************)
\* the full matches of the one regex the classes of the model use: a+
SampleRegex == {t \in Text : Len(t) >= 1 /\ \A i \in 1..Len(t) : t[i] = "a"}

ConstrClasses ==
    {c \in [min_length : OptLength, max_length : OptLength,
            strip_whitespace : BOOLEAN, regex : {None, Some("a+")}] :
        LengthsInOrder(c)}

\* the final filters on the length
ConstrLengthFilter(min_size, max_size, t) ==
    IF min_size = 0 /\ max_size = None THEN TRUE
    ELSE IF max_size = None THEN min_size <= Len(t)
    ELSE min_size <= Len(t) /\ Len(t) <= Val(max_size)

ConstrStrategy(c) ==
    LET min_size == OrZero(c.min_length)
        max_size == c.max_length
        unfiltered ==
            IF c.regex # None
            THEN IF c.strip_whitespace
                 THEN {t \in FromRegex(SampleRegex) : t = Strip(t)}
                 ELSE FromRegex(SampleRegex)
            ELSE FromRegex(StripPattern(min_size, Repeats(min_size, max_size)))
    IN  IF c.regex = None /\ ~c.strip_whitespace
        THEN TextOfSize(min_size, max_size)
        ELSE {t \in unfiltered : ConstrLengthFilter(min_size, max_size, t)}

resolve_constr ==
    /\ CanCall("ConstrainedStr")
    /\ \E c \in ConstrClasses :
          /\ fn' = "resolve_constr"
          /\ cls' = c
          /\ strategy' = ConstrStrategy(c)
    /\ raised' = ""
    /\ drawn' = FALSE
    /\ value' = <<>>
    /\ UNCHANGED <<pc, email_validator, registry, import_failed>>

(***************************************************************************)
(* Drawing an example from the strategy the last call returned.            *)
(***************************************************************************)
Draw ==
    /\ Imported
    /\ raised = ""
    /\ ~drawn
    /\ \E v \in strategy : value' = v
    /\ drawn' = TRUE
    /\ UNCHANGED <<pc, email_validator, registry, import_failed,
                   fn, cls, raised, strategy>>

\* the call is over: Hypothesis is ready for the next one
Finish ==
    /\ fn # "idle"
    /\ fn' = "idle"
    /\ cls' = NoCall
    /\ raised' = ""
    /\ strategy' = {}
    /\ drawn' = FALSE
    /\ value' = 0
    /\ UNCHANGED <<pc, email_validator, registry, import_failed>>

(***************************************************************************)
(* The specification.                                                      *)
(***************************************************************************)
Init ==
    /\ pc = 0
    /\ email_validator \in BOOLEAN
    /\ registry = {}
    /\ import_failed = FALSE
    /\ fn = "idle"
    /\ cls = NoCall
    /\ raised = ""
    /\ strategy = {}
    /\ drawn = FALSE
    /\ value = 0

Next ==
    \/ ImportEmails
    \/ Register
    \/ fix_luhn_digit
    \/ PaymentCardNumber
    \/ resolve_anyurl
    \/ resolve_condecimal
    \/ resolve_confloat
    \/ resolve_conint
    \/ resolve_conbytes
    \/ resolve_constr
    \/ Draw
    \/ Finish

Spec == Init /\ [][Next]_vars

(***************************************************************************)
(* What the validator of a constrained numeric class checks.               *)
(***************************************************************************)
SatisfiesBounds(c, v) ==
    /\ (c.ge # None => v >= Val(c.ge))
    /\ (c.gt # None => v > Val(c.gt))
    /\ (c.le # None => v <= Val(c.le))
    /\ (c.lt # None => v < Val(c.lt))

IsMultiple(c, v) ==
    c.multiple_of # None => \E k \in NumUniverse : v = k * Val(c.multiple_of)

AtMostOneOfEachPair(c) ==
    /\ ~(c.ge # None /\ c.gt # None)
    /\ ~(c.le # None /\ c.lt # None)

\* the values the last call can hand to the test: those of the strategy,
\* and the one drawn
Produced == strategy \cup (IF drawn THEN {value} ELSE {})

(***************************************************************************)
(* The card number validator: digits only, 12 to 19 of them, a Luhn check  *)
(* digit, and the length of the brand.                                     *)
(***************************************************************************)
\* the Luhn sum read from the right: every second digit is doubled
LuhnSumFromRight(s) ==
    LET n == Len(s)
        Sum[k \in 0..n] ==
            IF k = 0 THEN 0
            ELSE LET d == s[n - k + 1]
                     t == IF k % 2 = 0
                          THEN (IF 2 * d > 9 THEN 2 * d - 9 ELSE 2 * d)
                          ELSE d
                 IN  Sum[k - 1] + t
    IN  Sum[n]

PassesLuhn(s) ==
    /\ \A i \in 1..Len(s) : s[i] \in Digit
    /\ LuhnSumFromRight(s) % 10 = 0

BrandLengthOk(s) ==
    /\ (s[1] = 4 => Len(s) = 16)
    /\ (s[1] = 5 /\ s[2] \in 1..5 => Len(s) = 16)
    /\ (s[1] = 3 /\ s[2] \in {4, 7} => Len(s) = 15)

CardAccepted(s) ==
    /\ \A i \in 1..Len(s) : s[i] \in Digit
    /\ Len(s) \in 12..19
    /\ PassesLuhn(s)
    /\ BrandLengthOk(s)

(***************************************************************************)
(* C1: every payment card number the registered strategy can produce is    *)
(* accepted by the validator: digits only, 12 to 19 characters, Luhn       *)
(* check, and the length its brand requires; for all four patterns.        *)
(***************************************************************************)
C1_CardsAccepted ==
    fn = "PaymentCardNumber" => (raised = "" /\ drawn /\ CardAccepted(value))

(***************************************************************************)
(* C7: every URL the strategy of resolve_anyurl can produce meets the      *)
(* requirements of its class: the scheme is one of allowed_schemes when    *)
(* that set is not empty (every RedisDsn starts with redis://), the user   *)
(* is present when user_required, the host has a top-level domain and is   *)
(* no IP literal when tld_required, and the length of the URL lies in      *)
(* [min_length, max_length].                                               *)
(***************************************************************************)
StartsWith(url, prefix) ==
    Len(url) >= Len(prefix) /\ SubSeq(url, 1, Len(prefix)) = prefix

C7_UrlsMeetClass ==
    fn = "resolve_anyurl" =>
        \A u \in Produced :
            /\ cls.allowed_schemes # {} =>
                  /\ u.scheme \in cls.allowed_schemes
                  /\ \E scheme \in cls.allowed_schemes :
                        StartsWith(u.url, scheme \o "://")
            /\ cls.name = "RedisDsn" => StartsWith(u.url, "redis://")
            /\ cls.user_required =>
                  (u.user # None /\ StartsWith(u.url, u.scheme \o "://" \o Val(u.user)))
            /\ cls.tld_required => (u.host.tld # "" /\ ~u.host.ip)
            /\ cls.min_length <= Len(u.url)
            /\ Len(u.url) <= cls.max_length

C7_Witness ==
    /\ fn = "resolve_anyurl"
    /\ cls.name = "RedisDsn"
    /\ drawn
    /\ value.url = "redis://u:pw@1.2.3.4:80/p?q=1#f"

(***************************************************************************)
(* C8: when email-validator is absent the import does not fail, EmailStr   *)
(* and NameEmail are not registered and every other registration is still  *)
(* performed; when it is present EmailStr and NameEmail are registered in  *)
(* addition to all the others.                                             *)
(***************************************************************************)
OtherTypes ==
    {"PyObject", "Color", "Json", "JsonWrapper", "PaymentCardNumber"}
    \cup {"AnyUrl", "AnyHttpUrl", "HttpUrl", "PostgresDsn", "RedisDsn"}
    \cup {"UUID1", "UUID3", "UUID4", "UUID5"}
    \cup {"SecretBytes", "SecretStr"}
    \cup {"IPvAnyAddress", "IPvAnyInterface", "IPvAnyNetwork"}
    \cup {"StrictBool", "ConstrainedBytes", "ConstrainedDecimal",
          "ConstrainedFloat", "ConstrainedInt", "ConstrainedList",
          "ConstrainedSet", "ConstrainedStr"}

C8_OptionalEmails ==
    /\ ~import_failed
    /\ (~email_validator => registry \cap {"EmailStr", "NameEmail"} = {})
    /\ (pc = Done /\ ~email_validator => registry = OtherTypes)
    /\ (pc = Done /\ email_validator =>
            registry = OtherTypes \cup {"EmailStr", "NameEmail"})

C8_Witness ==
    /\ pc = Done
    /\ ~email_validator
    /\ "ConstrainedStr" \in registry
    /\ "EmailStr" \notin registry

(***************************************************************************)
(* C9: for one or more digits followed by 'X', fix_luhn_digit returns a    *)
(* string of the same length, identical except that the final 'X' is a     *)
(* digit, which passes the Luhn check, and 'Should be unreachable' is      *)
(* never raised; for an input whose last character is not 'X' it raises    *)
(* the AssertionError of its first line.                                   *)
(***************************************************************************)
DigitsThenX(s) ==
    /\ Len(s) >= 2
    /\ s[Len(s)] = X
    /\ \A i \in 1..(Len(s) - 1) : s[i] \in Digit

C9_FixLuhnDigit ==
    fn = "fix_luhn_digit" =>
        /\ DigitsThenX(cls.card_number) =>
              /\ raised = ""
              /\ drawn
              /\ Len(value) = Len(cls.card_number)
              /\ SubSeq(value, 1, Len(cls.card_number) - 1) = SubSeq(cls.card_number, 1, Len(cls.card_number) - 1)
              /\ value[Len(value)] \in Digit
              /\ PassesLuhn(value)
        /\ cls.card_number[Len(cls.card_number)] # X =>
              (raised = "expected placeholder check digit" /\ ~drawn)
        /\ raised # "Should be unreachable"

\* 7992739871X, shortened to the model's lengths: 79X becomes 794 after the
\* digits 0..3 were tried and rejected
C9_Witness ==
    /\ fn = "fix_luhn_digit"
    /\ cls.card_number = <<7, 9, X>>
    /\ raised = ""
    /\ value = <<7, 9, 4>>

(***************************************************************************)
(* C2: for a constrained-int class with at most one bound of each pair and *)
(* multiple_of None or a positive integer, every value the strategy of     *)
(* resolve_conint can produce satisfies ge, gt, le, lt and is an exact     *)
(* multiple of multiple_of.                                                *)
(***************************************************************************)
C2_ConintSound ==
    (fn = "resolve_conint" /\ AtMostOneOfEachPair(cls)) =>
        \A v \in Produced : SatisfiesBounds(cls, v) /\ IsMultiple(cls, v)

C2_Witness ==
    /\ fn = "resolve_conint"
    /\ cls = [ge |-> None, gt |-> Some(0), le |-> None, lt |-> Some(2),
              multiple_of |-> None]
    /\ strategy = {1}
    /\ drawn
    /\ value = 1

(***************************************************************************)
(* What the validators of constrained str / bytes classes need of a value  *)
(* when strip_whitespace is set: nothing to strip, and the length in range.*)
(***************************************************************************)
NoOuterWhitespace(t) ==
    t = <<>> \/ (t[1] \notin Whitespace /\ t[Len(t)] \notin Whitespace)

LengthInRange(c, t) ==
    Val(c.min_length) <= Len(t) /\ Len(t) <= Val(c.max_length)

BothLengthsSet(c) == c.min_length # None /\ c.max_length # None

(***************************************************************************)
(* C3: for a constrained-str class without a regex, with strip_whitespace  *)
(* and 0 <= min_length <= max_length, every string the strategy of         *)
(* resolve_constr can produce neither starts nor ends with whitespace and  *)
(* has min_length <= len(s) <= max_length.                                 *)
(***************************************************************************)
C3_ConstrStripped ==
    (/\ fn = "resolve_constr"
     /\ cls.regex = None
     /\ cls.strip_whitespace
     /\ BothLengthsSet(cls)) =>
        \A t \in Produced : NoOuterWhitespace(t) /\ LengthInRange(cls, t)

(***************************************************************************)
(* C4: for a constrained-bytes class with 0 <= min_length <= max_length,   *)
(* every value the strategy of resolve_conbytes can produce has            *)
(* min_length <= len(b) <= max_length, with and without strip_whitespace,  *)
(* and with strip_whitespace neither starts nor ends with whitespace.      *)
(***************************************************************************)
C4_ConbytesInRange ==
    (fn = "resolve_conbytes" /\ BothLengthsSet(cls)) =>
        \A b \in Produced :
            /\ LengthInRange(cls, b)
            /\ (cls.strip_whitespace => NoOuterWhitespace(b))

(***************************************************************************)
(* C5: every value the strategy of resolve_condecimal can produce          *)
(* satisfies the bounds with the right strictness: d >= ge, d <= le,       *)
(* d > gt and d < lt.                                                      *)
(***************************************************************************)
C5_CondecimalSound ==
    fn = "resolve_condecimal" =>
        \A d \in Produced : SatisfiesBounds(cls, d)

(***************************************************************************)
(* C6: every value the strategy of resolve_confloat can produce satisfies  *)
(* ge <= v, v <= le, gt < v and v < lt for whichever bounds are set.       *)
(***************************************************************************)
C6_ConfloatSound ==
    fn = "resolve_confloat" =>
        \A v \in Produced : SatisfiesBounds(cls, v)

\* confloat(ge=0, lt=1) yields 0 and never 1
C6_Witness ==
    /\ fn = "resolve_confloat"
    /\ cls = [ge |-> Some(0), gt |-> None, le |-> None, lt |-> Some(1),
              multiple_of |-> None]
    /\ strategy = {x \in NumUniverse : 0 <= x /\ x < 1}
    /\ drawn
    /\ value = 0

(***************************************************************************)
(* C10: in resolve_conint, resolve_confloat and resolve_condecimal a class *)
(* that sets both gt and ge, or both lt and le, raises the AssertionError   *)
(* and no strategy is returned; a class that sets at most one bound of     *)
(* each pair triggers neither assertion.                                   *)
(***************************************************************************)
C10_BoundAssertions ==
    fn \in {"resolve_conint", "resolve_confloat", "resolve_condecimal"} =>
        /\ (cls.gt # None /\ cls.ge # None) =>
               raised = "Set gt or ge, but not both"
        /\ (cls.lt # None /\ cls.le # None) =>
               raised \in {"Set gt or ge, but not both",
                           "Set lt or le, but not both"}
        /\ (cls.lt # None /\ cls.le # None /\ ~(cls.gt # None /\ cls.ge # None))
               => raised = "Set lt or le, but not both"
        /\ ~AtMostOneOfEachPair(cls) => (strategy = {} /\ ~drawn)
        /\ AtMostOneOfEachPair(cls) => raised = ""

C10_Witness ==
    /\ fn = "resolve_confloat"
    /\ cls.lt # None /\ cls.le # None /\ cls.gt = None
    /\ raised = "Set lt or le, but not both"

(***************************************************************************)
(* C11: for a constrained-int class with at most one bound of each pair    *)
(* and multiple_of None or a positive integer, the range resolve_conint    *)
(* hands to st.integers (after gt+1 / lt-1 and the ceil / floor scaling),  *)
(* multiplied by multiple_of, yields exactly the integers that satisfy the *)
(* constraints, and its lower end exceeds its upper end only when no       *)
(* integer satisfies them.                                                 *)
(***************************************************************************)
ValidInts(c) ==
    {v \in NumUniverse : SatisfiesBounds(c, v) /\ IsMultiple(c, v)}

C11_ConintComplete ==
    (fn = "resolve_conint" /\ AtMostOneOfEachPair(cls)) =>
        /\ raised = ""
        /\ strategy \subseteq ConintMapped(cls)
        /\ ConintMapped(cls) = ValidInts(cls)
        /\ (/\ ConintLow(cls) # None
            /\ ConintHigh(cls) # None
            /\ Val(ConintLow(cls)) > Val(ConintHigh(cls))) => ValidInts(cls) = {}

\* conint(ge=-1, le=2, multiple_of=2): ceil(-1/2) = 0 and floor(2/2) = 1
C11_Witness ==
    /\ fn = "resolve_conint"
    /\ cls = [ge |-> Some(0 - 1), gt |-> None, le |-> Some(2), lt |-> None,
              multiple_of |-> Some(2)]
    /\ ConintLow(cls) = Some(0)
    /\ ConintHigh(cls) = Some(1)
    /\ strategy = {0, 2}
    /\ drawn
    /\ value = 2


====
